---- MODULE Spec2Model ----
(***************************************************************************)
(* Model of src/main.rs: the one-shot load of the Toulouse xmas-tree       *)
(* collection places into an Elasticsearch index.  main() is a linear      *)
(* pipeline; every `?` is an exit to Failed.  The Elasticsearch node and   *)
(* the open-data HTTP endpoint are the environment: the outcome of each    *)
(* call (transport failure, status, body) is chosen nondeterministically.  *)
(* f64 coordinates are represented by integers (only their position in    *)
(* the pair matters to the code).                                          *)
(***************************************************************************)
EXTENDS Integers, Sequences, FiniteSets, TLC

VARIABLES
    pc,              \* position of main()
    envUrl,          \* ELASTICSEARCH_URL: "missing" | "malformed" | "valid"
    indexExists,     \* store: does INDEX_NAME exist
    indexDocs,       \* store: documents held by INDEX_NAME
    initialDocs,     \* store content before the run (never changes)
    deleteResult,    \* outcome of the delete call, "none" before it
    createResult,    \* outcome of the create call
    fetchResult,     \* outcome of the GET
    body,            \* body of the GET response
    places,          \* Vec<SourcePlace>
    indexed_places,  \* the IndexedPlace sequence
    bulkOps,         \* body of the bulk request
    bulkResult,      \* outcome of the bulk call
    bulkBody,        \* raw body of the bulk response
    bulk_response,   \* bulk response parsed as a JsonValue
    calls,           \* external calls issued so far, in order
    history,         \* positions main() has completed, in order
    exitCode,        \* -1 while running, then the process exit code
    error            \* cause carried by Failed

vars == <<pc, envUrl, indexExists, indexDocs, initialDocs, deleteResult,
          createResult, fetchResult, body, places, indexed_places, bulkOps,
          bulkResult, bulkBody, bulk_response, calls, history, exitCode, error>>

(* ---------------------------- bounds ----------------------------------- *)
MaxLen == 2

(* --------------------------- constants --------------------------------- *)
INDEX_NAME == "xmas-tree-recycling"
DATA_URL == "https://data.toulouse-metropole.fr/explore/dataset/collecte-des-sapins-de-noel/download/?format=json"

(* ------------------------- input universes ----------------------------- *)
RecordIds == {"r1", "r2"}
GeoArrays == {<<43, 1>>, <<1, 43>>, <<43>>}

RawElems == [datasetid : {"d1"}, recordid : RecordIds, commune : {"TOULOUSE"},
             adresse : {"1 rue X"}, geo_point_2d : GeoArrays]

SeqsUpTo(S, n) == UNION {[1..k -> S] : k \in 0..n}

NoBody == [kind |-> "none", elems |-> <<>>]
Bodies == {[kind |-> "array", elems |-> es] : es \in SeqsUpTo(RawElems, MaxLen)}
          \cup {[kind |-> "invalid", elems |-> <<>>]}

OldDoc == [dataset_id |-> "d0", record_id |-> "r0", city |-> "OLD",
           street |-> "old", location |-> <<0, 0>>]

(* --------------------------- JSON values ------------------------------- *)
JsonNull == [t |-> "null", v |-> ""]
JsonBool(b) == [t |-> "bool", v |-> IF b THEN "true" ELSE "false"]
JsonString(s) == [t |-> "string", v |-> s]
JsonNumber(s) == [t |-> "number", v |-> s]

ErrorsValues == {JsonNull, JsonBool(TRUE), JsonBool(FALSE),
                 JsonString("true"), JsonNumber("1")}

NoBulkBody == [kind |-> "none", hasErrors |-> FALSE, errors |-> JsonNull]
BulkBodies ==
    {[kind |-> "object", hasErrors |-> TRUE, errors |-> e] : e \in ErrorsValues}
    \cup {[kind |-> "object", hasErrors |-> FALSE, errors |-> JsonNull],
          [kind |-> "array", hasErrors |-> FALSE, errors |-> JsonNull],
          [kind |-> "invalid", hasErrors |-> FALSE, errors |-> JsonNull],
          [kind |-> "unreadable", hasErrors |-> FALSE, errors |-> JsonNull]}

\* response.json::<JsonValue>(): succeeds when the body is read and is JSON
JsonParses(raw) == raw.kind \in {"object", "array"}

\* bulk_response["errors"]: Null for a missing key or a non-object value
IndexErrors(value) ==
    IF value.kind = "object" /\ value.hasErrors THEN value.errors ELSE JsonNull

ErrorsFlaggedTruthy(value) ==
    IndexErrors(value) \in {JsonBool(TRUE), JsonString("true"), JsonNumber("1")}

\* bulk_response["errors"] == JsonValue::Bool(true)
ErrorsFlagged(value) == IndexErrors(value) = JsonBool(TRUE)

(* ------------------------ parsing the records -------------------------- *)
\* serde: geo_point_2d: (f64, f64) accepts exactly a two-element array
WellFormed(e) == Len(e.geo_point_2d) = 2

ParseOk(b) ==
    /\ b.kind = "array"
    /\ \A i \in 1..Len(b.elems) : WellFormed(b.elems[i])

ParsePlaces(b) ==
    [i \in 1..Len(b.elems) |->
        [datasetid |-> b.elems[i].datasetid,
         recordid |-> b.elems[i].recordid,
         fields |-> [commune |-> b.elems[i].commune,
                     adresse |-> b.elems[i].adresse,
                     geo_point_2d |-> <<b.elems[i].geo_point_2d[1],
                                        b.elems[i].geo_point_2d[2]>>]]]

(* --------------------------- transformer ------------------------------- *)
ToIndexedNoSwap(place) ==
    [dataset_id |-> place.datasetid,
     record_id |-> place.recordid,
     city |-> place.fields.commune,
     street |-> place.fields.adresse,
     location |-> <<place.fields.geo_point_2d[1], place.fields.geo_point_2d[2]>>]

ToIndexed(place) ==
    [dataset_id |-> place.datasetid,
     record_id |-> place.recordid,
     city |-> place.fields.commune,
     street |-> place.fields.adresse,
     location |-> <<place.fields.geo_point_2d[2], place.fields.geo_point_2d[1]>>]

TransformAll(ps) == [i \in 1..Len(ps) |-> ToIndexed(ps[i])]

BulkOperationsReversed(ips) ==
    [i \in 1..Len(ips) |->
        [action |-> "index", index |-> INDEX_NAME, doc |-> ips[Len(ips) + 1 - i]]]

\* one BulkOperation::index per place, collected in iteration order
BulkOperations(ips) ==
    [i \in 1..Len(ips) |-> [action |-> "index", index |-> INDEX_NAME, doc |-> ips[i]]]

(* ----------------------------- helpers --------------------------------- *)
Terminated == pc \in {"Done", "Failed"}

AbortExitZero(cause) ==
    /\ pc' = "Failed"
    /\ exitCode' = 0
    /\ error' = cause

\* `?` / return Err(..): main returns Err, the process exits non-zero
Abort(cause) ==
    /\ pc' = "Failed"
    /\ exitCode' = 1
    /\ error' = cause

Advance(next) ==
    /\ pc' = next
    /\ history' = Append(history, next)
    /\ UNCHANGED <<exitCode, error>>

(* ------------------------------ Init ----------------------------------- *)
Init ==
    /\ pc = "Start"
    /\ envUrl \in {"missing", "malformed", "valid"}
    /\ indexExists \in BOOLEAN
    /\ indexDocs = IF indexExists THEN <<OldDoc>> ELSE <<>>
    /\ initialDocs = indexDocs
    /\ deleteResult = "none"
    /\ createResult = "none"
    /\ fetchResult = "none"
    /\ body = NoBody
    /\ places = <<>>
    /\ indexed_places = <<>>
    /\ bulkOps = <<>>
    /\ bulkResult = "none"
    /\ bulkBody = NoBulkBody
    /\ bulk_response = NoBulkBody
    /\ calls = <<>>
    /\ history = <<"Start">>
    /\ exitCode = -1
    /\ error = "none"

(* ----------------------------- actions --------------------------------- *)
LoadConfigWithDefault ==
    /\ pc = "Start"
    /\ IF envUrl = "malformed"
         THEN Abort("transport") /\ UNCHANGED history
         ELSE Advance("ConfigLoaded")
    /\ UNCHANGED <<envUrl, indexExists, indexDocs, initialDocs, deleteResult,
                   createResult, fetchResult, body, places, indexed_places,
                   bulkOps, bulkResult, bulkBody, bulk_response, calls>>

\* std::env::var("ELASTICSEARCH_URL")?  and  Transport::single_node(&es_url)?
LoadConfig ==
    /\ pc = "Start"
    /\ CASE envUrl = "missing" -> Abort("config") /\ UNCHANGED history
         [] envUrl = "malformed" -> Abort("transport") /\ UNCHANGED history
         [] OTHER -> Advance("ConfigLoaded")
    /\ UNCHANGED <<envUrl, indexExists, indexDocs, initialDocs, deleteResult,
                   createResult, fetchResult, body, places, indexed_places,
                   bulkOps, bulkResult, bulkBody, bulk_response, calls>>

\* indices().delete(..).send().await?  -- the status code is never inspected
DeleteIndex ==
    /\ pc = "ConfigLoaded"
    /\ calls' = Append(calls, "delete")
    /\ \E r \in {"transport", "ok", "not_found", "http_error"} :
        /\ r = "ok" => indexExists
        /\ r = "not_found" => ~indexExists
        /\ deleteResult' = r
        /\ IF r = "transport"
             THEN Abort("transport") /\ UNCHANGED <<history, indexExists, indexDocs>>
             ELSE /\ Advance("IndexDeleted")
                  /\ IF r = "ok"
                       THEN indexExists' = FALSE /\ indexDocs' = <<>>
                       ELSE UNCHANGED <<indexExists, indexDocs>>
    /\ UNCHANGED <<envUrl, initialDocs, createResult, fetchResult, body, places,
                   indexed_places, bulkOps, bulkResult, bulkBody, bulk_response>>

CreateIndexRetry ==
    /\ pc = "IndexDeleted"
    /\ calls' = Append(calls, "create")
    /\ \E r \in {"transport", "ok", "http_error"} :
        /\ r = "ok" => ~indexExists
        /\ createResult' = r
        /\ CASE r = "ok" ->
                  /\ Advance("IndexCreated")
                  /\ indexExists' = TRUE /\ indexDocs' = <<>>
             [] r # "ok" /\ Len(calls) < 2 ->
                  UNCHANGED <<pc, history, exitCode, error, indexExists, indexDocs>>
             [] OTHER ->
                  /\ Abort(IF r = "transport" THEN "transport" ELSE "store_status")
                  /\ UNCHANGED <<history, indexExists, indexDocs>>
    /\ UNCHANGED <<envUrl, initialDocs, deleteResult, fetchResult, body, places,
                   indexed_places, bulkOps, bulkResult, bulkBody, bulk_response>>

\* indices().create(..).body(mappings).send().await?.error_for_status_code()?
CreateIndex ==
    /\ pc = "IndexDeleted"
    /\ calls' = Append(calls, "create")
    /\ \E r \in {"transport", "ok", "http_error"} :
        /\ r = "ok" => ~indexExists
        /\ createResult' = r
        /\ CASE r = "ok" ->
                  /\ Advance("IndexCreated")
                  /\ indexExists' = TRUE /\ indexDocs' = <<>>
             [] OTHER ->
                  /\ Abort(IF r = "transport" THEN "transport" ELSE "store_status")
                  /\ UNCHANGED <<history, indexExists, indexDocs>>
    /\ UNCHANGED <<envUrl, initialDocs, deleteResult, fetchResult, body, places,
                   indexed_places, bulkOps, bulkResult, bulkBody, bulk_response>>

FetchDataNoStatusCheck ==
    /\ pc = "IndexCreated"
    /\ calls' = Append(calls, "fetch")
    /\ \E r \in {"transport", "ok", "http_error"} :
        /\ fetchResult' = r
        /\ IF r = "transport"
             THEN Abort("fetch_transport") /\ UNCHANGED <<history, body>>
             ELSE /\ Advance("DataFetched")
                  /\ \E b \in Bodies : body' = b
    /\ UNCHANGED <<envUrl, indexExists, indexDocs, initialDocs, deleteResult,
                   createResult, places, indexed_places, bulkOps, bulkResult,
                   bulkBody, bulk_response>>

\* reqwest::get(DATA_URL).await?.error_for_status()?
FetchData ==
    /\ pc = "IndexCreated"
    /\ calls' = Append(calls, "fetch")
    /\ \E r \in {"transport", "ok", "http_error"} :
        /\ fetchResult' = r
        /\ CASE r = "transport" -> Abort("fetch_transport") /\ UNCHANGED <<history, body>>
             [] r = "http_error" -> Abort("fetch_status") /\ UNCHANGED <<history, body>>
             [] OTHER -> /\ Advance("DataFetched")
                         /\ \E b \in Bodies : body' = b
    /\ UNCHANGED <<envUrl, indexExists, indexDocs, initialDocs, deleteResult,
                   createResult, places, indexed_places, bulkOps, bulkResult,
                   bulkBody, bulk_response>>

\* serde_json::from_slice(&response.bytes().await?)?
ParseData ==
    /\ pc = "DataFetched"
    /\ \/ /\ Abort("body_read")
          /\ UNCHANGED <<history, places>>
       \/ /\ ~ParseOk(body)
          /\ Abort("parse")
          /\ UNCHANGED <<history, places>>
       \/ /\ ParseOk(body)
          /\ places' = ParsePlaces(body)
          /\ Advance("DataParsed")
    /\ UNCHANGED <<envUrl, indexExists, indexDocs, initialDocs, deleteResult,
                   createResult, fetchResult, body, indexed_places, bulkOps,
                   bulkResult, bulkBody, bulk_response, calls>>

TransformFailOnEmpty ==
    /\ pc = "DataParsed"
    /\ IF places = <<>>
         THEN Abort("parse") /\ UNCHANGED <<history, indexed_places>>
         ELSE indexed_places' = TransformAll(places) /\ Advance("DataTransformed")
    /\ UNCHANGED <<envUrl, indexExists, indexDocs, initialDocs, deleteResult,
                   createResult, fetchResult, body, places, bulkOps, bulkResult,
                   bulkBody, bulk_response, calls>>

\* places.into_iter().map(|place| IndexedPlace { .. })
Transform ==
    /\ pc = "DataParsed"
    /\ indexed_places' = TransformAll(places)
    /\ Advance("DataTransformed")
    /\ UNCHANGED <<envUrl, indexExists, indexDocs, initialDocs, deleteResult,
                   createResult, fetchResult, body, places, bulkOps, bulkResult,
                   bulkBody, bulk_response, calls>>

\* es_client.bulk(..).body(ops).send().await?.error_for_status_code()?
\* A 2xx response comes with a body; when its errors flag is true the store
\* has rejected at least one item and holds only part of the payload.
BulkLoad ==
    /\ pc = "DataTransformed"
    /\ calls' = Append(calls, "bulk")
    /\ bulkOps' = BulkOperations(indexed_places)
    /\ \E r \in {"transport", "ok", "http_error"} :
        /\ bulkResult' = r
        /\ CASE r = "ok" ->
                  /\ Advance("DataBulkLoaded")
                  /\ \E raw \in BulkBodies :
                        /\ bulkBody' = raw
                        /\ IF raw.kind = "object" /\ raw.hasErrors
                              /\ raw.errors = JsonBool(TRUE)
                             THEN \E k \in 0..Len(indexed_places) :
                                    /\ (Len(indexed_places) > 0 => k < Len(indexed_places))
                                    /\ indexDocs' = SubSeq(indexed_places, 1, k)
                             ELSE indexDocs' = indexed_places
             [] OTHER ->
                  /\ Abort(IF r = "transport" THEN "transport" ELSE "store_status")
                  /\ UNCHANGED <<history, bulkBody, indexDocs>>
    /\ UNCHANGED <<envUrl, indexExists, initialDocs, deleteResult, createResult,
                   fetchResult, body, places, indexed_places, bulk_response>>

\* response.json::<JsonValue>().await?
ReadBulkResponse ==
    /\ pc = "DataBulkLoaded"
    /\ IF JsonParses(bulkBody)
         THEN bulk_response' = bulkBody /\ Advance("BulkResponseRead")
         ELSE Abort("bulk_body") /\ UNCHANGED <<history, bulk_response>>
    /\ UNCHANGED <<envUrl, indexExists, indexDocs, initialDocs, deleteResult,
                   createResult, fetchResult, body, places, indexed_places,
                   bulkOps, bulkResult, bulkBody, calls>>

\* if bulk_response["errors"] == JsonValue::Bool(true) { return Err(..) }
Verify ==
    /\ pc = "BulkResponseRead"
    /\ IF ErrorsFlagged(bulk_response)
         THEN Abort("bulk_errors") /\ UNCHANGED history
         ELSE Advance("Verified")
    /\ UNCHANGED <<envUrl, indexExists, indexDocs, initialDocs, deleteResult,
                   createResult, fetchResult, body, places, indexed_places,
                   bulkOps, bulkResult, bulkBody, bulk_response, calls>>

\* println!("Done!"); Ok(())
Finish ==
    /\ pc = "Verified"
    /\ pc' = "Done"
    /\ history' = Append(history, "Done")
    /\ exitCode' = 0
    /\ UNCHANGED <<envUrl, indexExists, indexDocs, initialDocs, deleteResult,
                   createResult, fetchResult, body, places, indexed_places,
                   bulkOps, bulkResult, bulkBody, bulk_response, calls, error>>

Next ==
    \/ LoadConfig
    \/ DeleteIndex
    \/ CreateIndex
    \/ FetchData
    \/ ParseData
    \/ Transform
    \/ BulkLoad
    \/ ReadBulkResponse
    \/ Verify
    \/ Finish

Spec == Init /\ [][Next]_vars

\* main() is the only task: whenever a step is enabled it is eventually taken
LiveSpec == Spec /\ WF_vars(Next)

(* ======================= properties of the run ========================= *)
InSeq(x, s) == \E i \in 1..Len(s) : s[i] = x

NoDuplicates(s) == \A i, j \in 1..Len(s) : i # j => s[i] # s[j]

\* the raw bulk response body is a JSON object whose "errors" is boolean true
TopLevelErrorsTrue(raw) ==
    raw.kind = "object" /\ raw.hasErrors /\ raw.errors = JsonBool(TRUE)

\* the store accepted the bulk call: 2xx, JSON body, errors flag not true
BulkAccepted ==
    bulkResult = "ok" /\ JsonParses(bulkBody) /\ ~TopLevelErrorsTrue(bulkBody)

StepOrder == <<"Start", "ConfigLoaded", "IndexDeleted", "IndexCreated",
               "DataFetched", "DataParsed", "DataTransformed", "DataBulkLoaded",
               "BulkResponseRead", "Verified", "Done">>

CallOrder == <<"delete", "create", "fetch", "bulk">>

\* C1: once the transformer has run, every source record has an indexed
\* record whose location is (lon, lat), the swap of geo_point_2d = (lat, lon),
\* and whose dataset_id, record_id, city and street are the source's
\* datasetid, recordid, fields.commune and fields.adresse unchanged.
C1_TransformSwapsAndCopies ==
    InSeq("DataTransformed", history) =>
        \A i \in 1..Len(places) :
            /\ i \in DOMAIN indexed_places
            /\ indexed_places[i].location[1] = places[i].fields.geo_point_2d[2]
            /\ indexed_places[i].location[2] = places[i].fields.geo_point_2d[1]
            /\ Len(indexed_places[i].location) = 2
            /\ indexed_places[i].dataset_id = places[i].datasetid
            /\ indexed_places[i].record_id = places[i].recordid
            /\ indexed_places[i].city = places[i].fields.commune
            /\ indexed_places[i].street = places[i].fields.adresse

C1_Witness ==
    /\ InSeq("DataTransformed", history)
    /\ Len(places) > 0
    /\ places[1].fields.geo_point_2d = <<43, 1>>
    /\ indexed_places[1].location = <<1, 43>>

\* C2: the bulk payload built from a fetched array of N records holds exactly
\* N index operations, the i-th one carrying the transform of the i-th
\* fetched record: nothing filtered, duplicated, deduplicated or reordered.
C2_BulkPayloadOneToOne ==
    bulkResult # "none" =>
        /\ Len(bulkOps) = Len(body.elems)
        /\ \A i \in 1..Len(body.elems) :
            /\ bulkOps[i].action = "index"
            /\ bulkOps[i].index = INDEX_NAME
            /\ bulkOps[i].doc =
                 [dataset_id |-> body.elems[i].datasetid,
                  record_id |-> body.elems[i].recordid,
                  city |-> body.elems[i].commune,
                  street |-> body.elems[i].adresse,
                  location |-> <<body.elems[i].geo_point_2d[2],
                                 body.elems[i].geo_point_2d[1]>>]

C2_Witness ==
    /\ bulkResult # "none"
    /\ Len(bulkOps) = 2
    /\ bulkOps[1].doc.record_id = "r1"
    /\ bulkOps[2].doc.record_id = "r2"

\* C3 as stated: whenever the bulk call returned 2xx, the run fails iff the
\* body's top-level errors field is boolean true, and otherwise ends in Done.
C3_Original ==
    (Terminated /\ bulkResult = "ok") =>
        /\ (pc = "Failed") <=> TopLevelErrorsTrue(bulkBody)
        /\ (pc = "Done") <=> ~TopLevelErrorsTrue(bulkBody)

\* C3 amended: whenever the bulk call returned 2xx and its body was read and
\* parsed as JSON, the run fails iff the top-level errors field is boolean
\* true; errors false, absent or of any other value ends the run in Done.
C3_VerifyErrorsFlag ==
    (Terminated /\ bulkResult = "ok" /\ JsonParses(bulkBody)) =>
        /\ (pc = "Failed") <=> TopLevelErrorsTrue(bulkBody)
        /\ (pc = "Done") <=> ~TopLevelErrorsTrue(bulkBody)

C3_Witness ==
    /\ pc = "Done"
    /\ bulkResult = "ok"
    /\ bulkBody.kind = "object"
    /\ bulkBody.hasErrors
    /\ bulkBody.errors = JsonString("true")

\* C4: a "not found" answer to the delete call lets the run go on to index
\* creation; any other delete failure (another non-2xx status, a transport
\* failure) aborts the run before the create call.
C4_DeleteFailureClasses ==
    /\ deleteResult = "not_found" => pc # "Failed" \/ createResult # "none"
    /\ deleteResult \in {"http_error", "transport"} =>
          pc = "Failed" /\ createResult = "none" /\ ~InSeq("create", calls)

\* C5: when the GET fails (transport, non-2xx) or its body cannot be read or
\* parsed as an array of well-formed records, the run is Failed, no bulk call
\* was issued, and the index exists and is empty (deleted and recreated).
C5_FetchFailureLeavesEmptyIndex ==
    (Terminated /\ (fetchResult \in {"transport", "http_error"}
                    \/ error \in {"body_read", "parse"}
                    \/ (fetchResult = "ok" /\ ~ParseOk(body)))) =>
        /\ pc = "Failed"
        /\ bulkResult = "none"
        /\ ~InSeq("bulk", calls)
        /\ calls = <<"delete", "create", "fetch">>
        /\ createResult = "ok"
        /\ indexExists
        /\ indexDocs = <<>>

C5_Witness ==
    /\ pc = "Failed"
    /\ fetchResult = "http_error"
    /\ initialDocs = <<OldDoc>>
    /\ indexExists
    /\ indexDocs = <<>>

\* C6: with the connection URL variable missing, the run fails at once with
\* a configuration error and no delete, create, fetch or bulk call is issued.
C6_MissingConfigNoCalls ==
    envUrl = "missing" =>
        /\ calls = <<>>
        /\ pc \in {"Start", "Failed"}
        /\ pc = "Failed" => error = "config" /\ history = <<"Start">>

C6_Witness ==
    envUrl = "missing" /\ pc = "Failed" /\ exitCode = 1

\* C7: a run that reaches Done went through the steps in the fixed order and
\* issued delete, create, fetch, bulk in that order; in every run the steps
\* and calls so far are a prefix of that order, each call issued at most once.
C7_FixedOrderNoRetry ==
    /\ Len(history) <= Len(StepOrder)
    /\ history = SubSeq(StepOrder, 1, Len(history))
    /\ Len(calls) <= Len(CallOrder)
    /\ calls = SubSeq(CallOrder, 1, Len(calls))
    /\ NoDuplicates(calls)
    /\ pc = "Done" => history = StepOrder /\ calls = CallOrder

C7_Witness ==
    pc = "Done" /\ calls = CallOrder /\ Len(history) = 11

\* C8: every step's failure aborts the run: once any external call has failed
\* (transport failure or non-2xx status, "not found" on delete excepted) the
\* run is Failed and that call is the last one issued.
C8_EveryFailureAborts ==
    /\ deleteResult \in {"transport", "http_error"} =>
          pc = "Failed" /\ calls = <<"delete">>
    /\ createResult \in {"transport", "http_error"} =>
          pc = "Failed" /\ calls = <<"delete", "create">>
    /\ fetchResult \in {"transport", "http_error"} =>
          pc = "Failed" /\ calls = <<"delete", "create", "fetch">>
    /\ bulkResult \in {"transport", "http_error"} =>
          pc = "Failed" /\ calls = CallOrder

====
